---- MODULE Spec2Model ----
(***************************************************************************)
(* AdExFHEBiddingFHE: the sealed-bid batch auction contract with           *)
(* asynchronous oracle decryption.  Every external function is one action; *)
(* a reverting call leaves the contract storage as it was and emits        *)
(* nothing (EVM revert), and records the error it raised in lastCall.      *)
(***************************************************************************)
EXTENDS Integers, Sequences, FiniteSets, TLC

\* ------------------------------------------------------------------ bounds
MaxBids == 2          \* bids one batch may hold in the model
MaxTicks == 1         \* seconds the clock may advance past the deployment
MaxScanLen == 4       \* longest bid sequence the resolver is run on by itself
UintBits == 8         \* width the model gives to uint256

\* ----------------------------------------------------------- the universe
Addr == {"a1", "a2"}
Deployer == "a1"
Relayer == "relayer"
ThisAddress == "this"
BatchIds == {0, 1}
RequestIds == {0, 1}

DefaultCooldown == 10
StartTime == DefaultCooldown

\* type(uint256).max at the model's word width.
MaxUint == 2^UintBits - 1

\* Ciphertext handles (euint32).  Handle 0 is the uninitialized handle; the
\* cleartext under a handle is known to the FHE coprocessor and the KMS only:
\* handles 1, 2 hide 10, handles 3, 4 hide 20, handles 5, 6 hide 30.
UninitializedHandle == 0
AmountHandles == {1, 2, 3}
ScoreHandles == {7}
Cleartext(h) == ((h + 1) \div 2) * 10

isInitialized(x) == x # UninitializedHandle

\* x.ge(y).toBool(): the homomorphic comparison, read as a native boolean.
ge(x, y) == Cleartext(x) >= Cleartext(y)

toBytes32(x) == x

\* keccak256(abi.encode(cts, address(this))): collision-free, so the digest is
\* modelled by its preimage; bytes32(0) is the digest of no preimage.
ZeroHash == [cts |-> <<>>, self |-> "0x0"]
_hashCiphertexts(cts) == [cts |-> cts, self |-> ThisAddress]

Bid(amount, score, bidder) ==
    [encryptedBidAmount |-> amount, encryptedTargetingScore |-> score, bidder |-> bidder]

DefaultContext == [batchId |-> 0, stateHash |-> ZeroHash, processed |-> FALSE]

VARIABLES
    owner, providers, paused, cooldownSeconds,
    lastSubmissionTime, lastDecryptionRequestTime,
    batchBids, batchActive, batchClosed, decryptionContexts,
    requestedHandles,   \* the oracle's record: request id -> handles sent to it
    now,                \* block.timestamp
    lastCall,           \* the call just executed and how it ended
    emitted             \* the events that call appended to the log

storage == <<owner, providers, paused, cooldownSeconds,
             lastSubmissionTime, lastDecryptionRequestTime,
             batchBids, batchActive, batchClosed, decryptionContexts,
             requestedHandles>>
vars == <<storage, now, lastCall, emitted>>

\* arg is the call's first argument: the address, flag, duration, batch id or
\* request id it addresses.
Call(op, sender, arg, result) ==
    [op |-> op, sender |-> sender, arg |-> arg, result |-> result]

\* A call of myCallback, with the payload it carried.
CallbackCall(sender, requestId, cleartexts, proof, result) ==
    [op |-> "myCallback", sender |-> sender, arg |-> requestId, result |-> result,
     cleartexts |-> cleartexts, proof |-> proof]

Init ==
    /\ owner = Deployer
    /\ providers = [a \in Addr |-> a = Deployer]
    /\ paused = FALSE
    /\ cooldownSeconds = DefaultCooldown
    /\ lastSubmissionTime = [a \in Addr |-> 0]
    /\ lastDecryptionRequestTime = [a \in Addr |-> 0]
    /\ batchBids = [b \in BatchIds |-> <<>>]
    /\ batchActive = [b \in BatchIds |-> FALSE]
    /\ batchClosed = [b \in BatchIds |-> FALSE]
    /\ decryptionContexts = [r \in RequestIds |-> DefaultContext]
    /\ requestedHandles = [r \in RequestIds |-> <<>>]
    /\ now = StartTime
    /\ lastCall = Call("constructor", Deployer, Deployer, "ok")
    /\ emitted = <<[name |-> "ProviderAdded", provider |-> Deployer]>>

\* A revert: the whole call is undone, modifier writes included; nothing is logged.
Revert == /\ UNCHANGED storage
          /\ emitted' = <<>>

\* ---------------------------------------------------------------- modifiers
\* Each gives the error it reverts with, or "ok" when the body may run.
\* onlyOwner letting providers through as well.
onlyOwnerOrProvider(sender) ==
    IF sender # owner /\ ~providers[sender] THEN "NotOwner" ELSE "ok"

onlyOwner(sender) == IF sender # owner THEN "NotOwner" ELSE "ok"

onlyProvider(sender) == IF ~providers[sender] THEN "NotProvider" ELSE "ok"

\* whenNotPaused letting every call through.
whenNotPausedNeverReverting == "ok"

whenNotPaused == IF paused THEN "Paused" ELSE "ok"

\* submissionRateLimited refusing the call made exactly at the end of the window.
submissionRateLimitedInclusive(sender) ==
    IF lastSubmissionTime[sender] + cooldownSeconds > MaxUint THEN "Panic"
    ELSE IF now <= lastSubmissionTime[sender] + cooldownSeconds THEN "CooldownActive"
    ELSE "ok"

\* decryptionRateLimited reading the submission clock: one window for both uses.
decryptionRateLimitedBySubmissions(sender) ==
    IF lastSubmissionTime[sender] + cooldownSeconds > MaxUint THEN "Panic"
    ELSE IF now < lastSubmissionTime[sender] + cooldownSeconds THEN "CooldownActive"
    ELSE "ok"

\* submissionRateLimited with the cooldown of the constructor, whatever the owner set.
submissionRateLimitedDefaultCooldown(sender) ==
    IF lastSubmissionTime[sender] + DefaultCooldown > MaxUint THEN "Panic"
    ELSE IF now < lastSubmissionTime[sender] + DefaultCooldown THEN "CooldownActive"
    ELSE "ok"

\* The sum is checked uint256 arithmetic: past type(uint256).max the call reverts
\* with the compiler's arithmetic fault, "Panic", before the comparison is made.
submissionRateLimited(sender) ==
    IF lastSubmissionTime[sender] + cooldownSeconds > MaxUint THEN "Panic"
    ELSE IF now < lastSubmissionTime[sender] + cooldownSeconds THEN "CooldownActive"
    ELSE "ok"

decryptionRateLimited(sender) ==
    IF lastDecryptionRequestTime[sender] + cooldownSeconds > MaxUint THEN "Panic"
    ELSE IF now < lastDecryptionRequestTime[sender] + cooldownSeconds THEN "CooldownActive"
    ELSE "ok"

\* ------------------------------------------------------ access control layer
\* transferOwnership handing the provider flag over with the ownership.
transferOwnershipMovingProviderFlag(sender, newOwner) ==
    LET res == onlyOwner(sender) IN
    /\ lastCall' = Call("transferOwnership", sender, newOwner, res)
    /\ now' = now
    /\ IF res = "ok"
       THEN /\ owner' = newOwner
            /\ providers' = [providers EXCEPT ![owner] = FALSE, ![newOwner] = TRUE]
            /\ emitted' = <<[name |-> "OwnershipTransferred", oldOwner |-> owner,
                             newOwner |-> newOwner]>>
            /\ UNCHANGED <<paused, cooldownSeconds, lastSubmissionTime,
                           lastDecryptionRequestTime, batchBids, batchActive,
                           batchClosed, decryptionContexts, requestedHandles>>
       ELSE Revert

transferOwnership(sender, newOwner) ==
    LET res == onlyOwner(sender) IN
    /\ lastCall' = Call("transferOwnership", sender, newOwner, res)
    /\ now' = now
    /\ IF res = "ok"
       THEN /\ owner' = newOwner
            /\ emitted' = <<[name |-> "OwnershipTransferred", oldOwner |-> owner,
                             newOwner |-> newOwner]>>
            /\ UNCHANGED <<providers, paused, cooldownSeconds, lastSubmissionTime,
                           lastDecryptionRequestTime, batchBids, batchActive,
                           batchClosed, decryptionContexts, requestedHandles>>
       ELSE Revert

\* addProvider flipping the flag instead of setting it.
addProviderToggling(sender, provider) ==
    LET res == onlyOwner(sender) IN
    /\ lastCall' = Call("addProvider", sender, provider, res)
    /\ now' = now
    /\ IF res = "ok"
       THEN /\ providers' = [providers EXCEPT ![provider] = ~providers[provider]]
            /\ emitted' = <<[name |-> "ProviderAdded", provider |-> provider]>>
            /\ UNCHANGED <<owner, paused, cooldownSeconds, lastSubmissionTime,
                           lastDecryptionRequestTime, batchBids, batchActive,
                           batchClosed, decryptionContexts, requestedHandles>>
       ELSE Revert

addProvider(sender, provider) ==
    LET res == onlyOwner(sender) IN
    /\ lastCall' = Call("addProvider", sender, provider, res)
    /\ now' = now
    /\ IF res = "ok"
       THEN /\ providers' = [providers EXCEPT ![provider] = TRUE]
            /\ emitted' = <<[name |-> "ProviderAdded", provider |-> provider]>>
            /\ UNCHANGED <<owner, paused, cooldownSeconds, lastSubmissionTime,
                           lastDecryptionRequestTime, batchBids, batchActive,
                           batchClosed, decryptionContexts, requestedHandles>>
       ELSE Revert

removeProvider(sender, provider) ==
    LET res == onlyOwner(sender) IN
    /\ lastCall' = Call("removeProvider", sender, provider, res)
    /\ now' = now
    /\ IF res = "ok"
       THEN /\ providers' = [providers EXCEPT ![provider] = FALSE]
            /\ emitted' = <<[name |-> "ProviderRemoved", provider |-> provider]>>
            /\ UNCHANGED <<owner, paused, cooldownSeconds, lastSubmissionTime,
                           lastDecryptionRequestTime, batchBids, batchActive,
                           batchClosed, decryptionContexts, requestedHandles>>
       ELSE Revert

\* setPaused that, when pausing, also closes the active batches.
setPausedClosingBatches(sender, _paused) ==
    LET res == onlyOwner(sender) IN
    /\ lastCall' = Call("setPaused", sender, _paused, res)
    /\ now' = now
    /\ IF res = "ok"
       THEN /\ paused' = _paused
            /\ batchActive' = [b \in BatchIds |-> batchActive[b] /\ ~_paused]
            /\ batchClosed' = [b \in BatchIds |->
                                  batchClosed[b] \/ (batchActive[b] /\ _paused)]
            /\ emitted' = <<[name |-> "PausedSet", paused |-> _paused]>>
            /\ UNCHANGED <<owner, providers, cooldownSeconds, lastSubmissionTime,
                           lastDecryptionRequestTime, batchBids,
                           decryptionContexts, requestedHandles>>
       ELSE Revert

setPaused(sender, _paused) ==
    LET res == onlyOwner(sender) IN
    /\ lastCall' = Call("setPaused", sender, _paused, res)
    /\ now' = now
    /\ IF res = "ok"
       THEN /\ paused' = _paused
            /\ emitted' = <<[name |-> "PausedSet", paused |-> _paused]>>
            /\ UNCHANGED <<owner, providers, cooldownSeconds, lastSubmissionTime,
                           lastDecryptionRequestTime, batchBids, batchActive,
                           batchClosed, decryptionContexts, requestedHandles>>
       ELSE Revert

setCooldownSeconds(sender, _cooldownSeconds) ==
    LET res == onlyOwner(sender) IN
    /\ lastCall' = Call("setCooldownSeconds", sender, _cooldownSeconds, res)
    /\ now' = now
    /\ IF res = "ok"
       THEN /\ cooldownSeconds' = _cooldownSeconds
            /\ emitted' = <<[name |-> "CooldownSecondsSet",
                             cooldownSeconds |-> _cooldownSeconds]>>
            /\ UNCHANGED <<owner, providers, paused, lastSubmissionTime,
                           lastDecryptionRequestTime, batchBids, batchActive,
                           batchClosed, decryptionContexts, requestedHandles>>
       ELSE Revert

\* --------------------------------------------------- batch lifecycle manager
\* openBatchResult testing batchActive alone: a closed batch can be opened again.
openBatchResultIgnoringClosed(sender, batchId) ==
    IF onlyProvider(sender) # "ok" THEN onlyProvider(sender)
    ELSE IF whenNotPaused # "ok" THEN whenNotPaused
    ELSE IF batchActive[batchId] THEN "InvalidBatch"
    ELSE "ok"

\* openBatchResult testing batchClosed alone: an active batch can be opened again.
openBatchResultIgnoringActive(sender, batchId) ==
    IF onlyProvider(sender) # "ok" THEN onlyProvider(sender)
    ELSE IF whenNotPaused # "ok" THEN whenNotPaused
    ELSE IF batchClosed[batchId] THEN "InvalidBatch"
    ELSE "ok"

openBatchResult(sender, batchId) ==
    IF onlyProvider(sender) # "ok" THEN onlyProvider(sender)
    ELSE IF whenNotPaused # "ok" THEN whenNotPaused
    ELSE IF batchActive[batchId] \/ batchClosed[batchId] THEN "InvalidBatch"
    ELSE "ok"

openBatch(sender, batchId) ==
    LET res == openBatchResult(sender, batchId) IN
    /\ lastCall' = Call("openBatch", sender, batchId, res)
    /\ now' = now
    /\ IF res = "ok"
       THEN /\ batchActive' = [batchActive EXCEPT ![batchId] = TRUE]
            /\ emitted' = <<[name |-> "BatchOpened", batchId |-> batchId]>>
            /\ UNCHANGED <<owner, providers, paused, cooldownSeconds,
                           lastSubmissionTime, lastDecryptionRequestTime, batchBids,
                           batchClosed, decryptionContexts, requestedHandles>>
       ELSE Revert

\* closeBatchResult without the batchActive test of line 125.
closeBatchResultAnyBatch(sender, batchId) ==
    IF onlyProvider(sender) # "ok" THEN onlyProvider(sender)
    ELSE IF whenNotPaused # "ok" THEN whenNotPaused
    ELSE "ok"

closeBatchResult(sender, batchId) ==
    IF onlyProvider(sender) # "ok" THEN onlyProvider(sender)
    ELSE IF whenNotPaused # "ok" THEN whenNotPaused
    ELSE IF ~batchActive[batchId] THEN "InvalidBatch"
    ELSE "ok"

\* closeBatch without the write of line 126: the closed batch stays active.
closeBatchLeavingActive(sender, batchId) ==
    LET res == closeBatchResult(sender, batchId) IN
    /\ lastCall' = Call("closeBatch", sender, batchId, res)
    /\ now' = now
    /\ IF res = "ok"
       THEN /\ batchClosed' = [batchClosed EXCEPT ![batchId] = TRUE]
            /\ emitted' = <<[name |-> "BatchClosed", batchId |-> batchId]>>
            /\ UNCHANGED <<owner, providers, paused, cooldownSeconds,
                           lastSubmissionTime, lastDecryptionRequestTime, batchBids,
                           batchActive, decryptionContexts, requestedHandles>>
       ELSE Revert

closeBatch(sender, batchId) ==
    LET res == closeBatchResult(sender, batchId) IN
    /\ lastCall' = Call("closeBatch", sender, batchId, res)
    /\ now' = now
    /\ IF res = "ok"
       THEN /\ batchActive' = [batchActive EXCEPT ![batchId] = FALSE]
            /\ batchClosed' = [batchClosed EXCEPT ![batchId] = TRUE]
            /\ emitted' = <<[name |-> "BatchClosed", batchId |-> batchId]>>
            /\ UNCHANGED <<owner, providers, paused, cooldownSeconds,
                           lastSubmissionTime, lastDecryptionRequestTime, batchBids,
                           decryptionContexts, requestedHandles>>
       ELSE Revert

_initIfNeeded(x) == IF ~isInitialized(x) THEN "NotInitialized" ELSE "ok"

\* submitBidResult without the batchActive check of line 136.
submitBidResultAnyBatch(sender, batchId, encryptedBidAmount, encryptedTargetingScore) ==
    IF whenNotPaused # "ok" THEN whenNotPaused
    ELSE IF submissionRateLimited(sender) # "ok" THEN submissionRateLimited(sender)
    ELSE IF _initIfNeeded(encryptedBidAmount) # "ok" THEN _initIfNeeded(encryptedBidAmount)
    ELSE IF _initIfNeeded(encryptedTargetingScore) # "ok"
         THEN _initIfNeeded(encryptedTargetingScore)
    ELSE "ok"

\* submitBidResult taking bids for closed batches too.
submitBidResultOnClosedBatches(sender, batchId, encryptedBidAmount, encryptedTargetingScore) ==
    IF whenNotPaused # "ok" THEN whenNotPaused
    ELSE IF submissionRateLimited(sender) # "ok" THEN submissionRateLimited(sender)
    ELSE IF ~batchActive[batchId] /\ ~batchClosed[batchId] THEN "InvalidBatch"
    ELSE IF _initIfNeeded(encryptedBidAmount) # "ok" THEN _initIfNeeded(encryptedBidAmount)
    ELSE IF _initIfNeeded(encryptedTargetingScore) # "ok"
         THEN _initIfNeeded(encryptedTargetingScore)
    ELSE "ok"

submitBidResult(sender, batchId, encryptedBidAmount, encryptedTargetingScore) ==
    IF whenNotPaused # "ok" THEN whenNotPaused
    ELSE IF submissionRateLimited(sender) # "ok" THEN submissionRateLimited(sender)
    ELSE IF ~batchActive[batchId] THEN "InvalidBatch"
    ELSE IF _initIfNeeded(encryptedBidAmount) # "ok" THEN _initIfNeeded(encryptedBidAmount)
    ELSE IF _initIfNeeded(encryptedTargetingScore) # "ok"
         THEN _initIfNeeded(encryptedTargetingScore)
    ELSE "ok"

\* submitBid keeping the write of line 73 when the body reverts.
submitBidChargingOnFailure(sender, batchId, encryptedBidAmount, encryptedTargetingScore) ==
    LET res == submitBidResult(sender, batchId, encryptedBidAmount, encryptedTargetingScore)
        newBid == Bid(encryptedBidAmount, encryptedTargetingScore, sender)
    IN
    /\ res = "ok" => Len(batchBids[batchId]) < MaxBids
    /\ lastCall' = Call("submitBid", sender,
                        batchId, res)
    /\ now' = now
    /\ IF res = "ok"
       THEN /\ lastSubmissionTime' = [lastSubmissionTime EXCEPT ![sender] = now]
            /\ batchBids' = [batchBids EXCEPT ![batchId] = Append(@, newBid)]
            /\ emitted' = <<[name |-> "BidSubmitted", bidder |-> sender,
                             batchId |-> batchId]>>
            /\ UNCHANGED <<owner, providers, paused, cooldownSeconds,
                           lastDecryptionRequestTime, batchActive, batchClosed,
                           decryptionContexts, requestedHandles>>
       ELSE IF res \in {"InvalidBatch", "NotInitialized"}
       THEN /\ lastSubmissionTime' = [lastSubmissionTime EXCEPT ![sender] = now]
            /\ emitted' = <<>>
            /\ UNCHANGED <<owner, providers, paused, cooldownSeconds,
                           lastDecryptionRequestTime, batchBids, batchActive,
                           batchClosed, decryptionContexts, requestedHandles>>
       ELSE Revert

submitBid(sender, batchId, encryptedBidAmount, encryptedTargetingScore) ==
    LET res == submitBidResult(sender, batchId, encryptedBidAmount, encryptedTargetingScore)
        newBid == Bid(encryptedBidAmount, encryptedTargetingScore, sender)
    IN
    /\ res = "ok" => Len(batchBids[batchId]) < MaxBids
    /\ lastCall' = Call("submitBid", sender,
                        batchId, res)
    /\ now' = now
    /\ IF res = "ok"
       THEN /\ lastSubmissionTime' = [lastSubmissionTime EXCEPT ![sender] = now]
            /\ batchBids' = [batchBids EXCEPT ![batchId] = Append(@, newBid)]
            /\ emitted' = <<[name |-> "BidSubmitted", bidder |-> sender,
                             batchId |-> batchId]>>
            /\ UNCHANGED <<owner, providers, paused, cooldownSeconds,
                           lastDecryptionRequestTime, batchActive, batchClosed,
                           decryptionContexts, requestedHandles>>
       ELSE Revert

\* ------------------------------------------------------------ auction resolver
\* requestScan comparing with gt instead of ge: the first of equal bids wins.
RECURSIVE requestScanStrict(_, _, _, _)
requestScanStrict(bids, i, highestBid, comparisons) ==
    IF i > Len(bids) THEN [highestBid |-> highestBid, comparisons |-> comparisons]
    ELSE requestScanStrict(bids, i + 1,
                     IF ~ge(highestBid.encryptedBidAmount, bids[i].encryptedBidAmount)
                     THEN bids[i] ELSE highestBid,
                     comparisons + 1)

\* The scan of requestAuctionResultDecryption: the running highest bid after
\* comparing bids[i .. numBids] (1-based here, 0-based in the source), and the
\* number of homomorphic comparisons (calls of ge) made.
RECURSIVE requestScan(_, _, _, _)
requestScan(bids, i, highestBid, comparisons) ==
    IF i > Len(bids) THEN [highestBid |-> highestBid, comparisons |-> comparisons]
    ELSE requestScan(bids, i + 1,
                     IF ge(bids[i].encryptedBidAmount, highestBid.encryptedBidAmount)
                     THEN bids[i] ELSE highestBid,
                     comparisons + 1)

\* requestWinner handing over the winner's targeting score instead of its amount.
requestWinnerDecryptingScore(bids) ==
    IF Len(bids) = 1
    THEN [encryptedWinningBidAmount |-> bids[1].encryptedTargetingScore,
          winner |-> bids[1].bidder, comparisons |-> 0]
    ELSE LET scan == requestScan(bids, 2, bids[1], 0) IN
         [encryptedWinningBidAmount |-> scan.highestBid.encryptedTargetingScore,
          winner |-> scan.highestBid.bidder, comparisons |-> scan.comparisons]

requestWinner(bids) ==
    IF Len(bids) = 1
    THEN [encryptedWinningBidAmount |-> bids[1].encryptedBidAmount,
          winner |-> bids[1].bidder, comparisons |-> 0]
    ELSE LET scan == requestScan(bids, 2, bids[1], 0) IN
         [encryptedWinningBidAmount |-> scan.highestBid.encryptedBidAmount,
          winner |-> scan.highestBid.bidder, comparisons |-> scan.comparisons]

\* callbackCiphertextScan comparing with gt instead of ge.
RECURSIVE callbackCiphertextScanStrict(_, _, _)
callbackCiphertextScanStrict(bids, i, highestBid) ==
    IF i > Len(bids) THEN highestBid
    ELSE callbackCiphertextScanStrict(bids, i + 1,
                     IF ~ge(highestBid.encryptedBidAmount, bids[i].encryptedBidAmount)
                     THEN bids[i] ELSE highestBid)

\* The first scan of myCallback: the ciphertext whose hash is recomputed.
RECURSIVE callbackCiphertextScan(_, _, _)
callbackCiphertextScan(bids, i, highestBid) ==
    IF i > Len(bids) THEN highestBid
    ELSE callbackCiphertextScan(bids, i + 1,
                     IF ge(bids[i].encryptedBidAmount, highestBid.encryptedBidAmount)
                     THEN bids[i] ELSE highestBid)

callbackCiphertext(bids) ==
    IF Len(bids) = 1 THEN bids[1].encryptedBidAmount
    ELSE callbackCiphertextScan(bids, 2, bids[1]).encryptedBidAmount

\* callbackWinnerScan comparing with gt instead of ge: the first of equal bids wins.
RECURSIVE callbackWinnerScanStrict(_, _, _)
callbackWinnerScanStrict(bids, i, highestBid) ==
    IF i > Len(bids) THEN highestBid
    ELSE callbackWinnerScanStrict(bids, i + 1,
                     IF ~ge(highestBid.encryptedBidAmount, bids[i].encryptedBidAmount)
                     THEN bids[i] ELSE highestBid)

\* The second scan of myCallback: the winner address put in the event.
RECURSIVE callbackWinnerScan(_, _, _)
callbackWinnerScan(bids, i, highestBid) ==
    IF i > Len(bids) THEN highestBid
    ELSE callbackWinnerScan(bids, i + 1,
                     IF ge(bids[i].encryptedBidAmount, highestBid.encryptedBidAmount)
                     THEN bids[i] ELSE highestBid)

\* callbackWinner naming the first bidder of the batch.
callbackWinnerFirstBid(bids) == bids[1].bidder

callbackWinner(bids) ==
    IF Len(bids) = 1 THEN bids[1].bidder
    ELSE callbackWinnerScan(bids, 2, bids[1]).bidder

\* ---------------------------------------------------- decryption oracle bridge
\* What the KMS signs for a list of handles: the handles and their true cleartext.
KmsProof(handles) == [handles |-> handles, cleartexts |-> Cleartext(handles[1])]
ForgedProof == [handles |-> <<>>, cleartexts |-> 0]

\* FHE.checkSignatures: the proof is a KMS signature over the handles saved for
\* requestId and over the cleartexts delivered.
checkSignatures(requestId, cleartexts, proof) ==
    /\ requestedHandles[requestId] # <<>>
    /\ proof.handles = requestedHandles[requestId]
    /\ proof.cleartexts = cleartexts

\* requestAuctionResultDecryptionResult without the onlyProvider modifier.
requestAuctionResultDecryptionResultAnyCaller(sender, batchId) ==
    IF whenNotPaused # "ok" THEN whenNotPaused
    ELSE IF decryptionRateLimited(sender) # "ok" THEN decryptionRateLimited(sender)
    ELSE IF ~batchClosed[batchId] \/ Len(batchBids[batchId]) = 0 THEN "InvalidBatch"
    ELSE "ok"

\* requestAuctionResultDecryptionResult without the whenNotPaused modifier.
requestAuctionResultDecryptionResultWhilePaused(sender, batchId) ==
    IF decryptionRateLimited(sender) # "ok" THEN decryptionRateLimited(sender)
    ELSE IF onlyProvider(sender) # "ok" THEN onlyProvider(sender)
    ELSE IF ~batchClosed[batchId] \/ Len(batchBids[batchId]) = 0 THEN "InvalidBatch"
    ELSE "ok"

\* requestAuctionResultDecryptionResult without the batchClosed test of line 151.
requestAuctionResultDecryptionResultOpenBatches(sender, batchId) ==
    IF whenNotPaused # "ok" THEN whenNotPaused
    ELSE IF decryptionRateLimited(sender) # "ok" THEN decryptionRateLimited(sender)
    ELSE IF onlyProvider(sender) # "ok" THEN onlyProvider(sender)
    ELSE IF Len(batchBids[batchId]) = 0 THEN "InvalidBatch"
    ELSE "ok"

requestAuctionResultDecryptionResult(sender, batchId) ==
    IF whenNotPaused # "ok" THEN whenNotPaused
    ELSE IF decryptionRateLimited(sender) # "ok" THEN decryptionRateLimited(sender)
    ELSE IF onlyProvider(sender) # "ok" THEN onlyProvider(sender)
    ELSE IF ~batchClosed[batchId] \/ Len(batchBids[batchId]) = 0 THEN "InvalidBatch"
    ELSE "ok"

\* requestAuctionResultDecryption keeping the write of line 81 when the call
\* reverts after the rate limiter.
requestAuctionResultDecryptionChargingOnFailure(sender, batchId, requestId) ==
    LET res == requestAuctionResultDecryptionResult(sender, batchId) IN
    /\ IF res = "ok" THEN requestedHandles[requestId] = <<>>
                     ELSE requestId = CHOOSE r \in RequestIds : TRUE
    /\ lastCall' = Call("requestAuctionResultDecryption", sender, batchId, res)
    /\ now' = now
    /\ IF res = "ok"
       THEN LET cts == <<toBytes32(requestWinner(batchBids[batchId]).encryptedWinningBidAmount)>>
                stateHash == _hashCiphertexts(cts)
            IN
            /\ lastDecryptionRequestTime' =
                   [lastDecryptionRequestTime EXCEPT ![sender] = now]
            /\ requestedHandles' = [requestedHandles EXCEPT ![requestId] = cts]
            /\ decryptionContexts' = [decryptionContexts EXCEPT ![requestId] =
                   [batchId |-> batchId, stateHash |-> stateHash, processed |-> FALSE]]
            /\ emitted' = <<[name |-> "DecryptionRequested", requestId |-> requestId,
                             batchId |-> batchId]>>
            /\ UNCHANGED <<owner, providers, paused, cooldownSeconds, lastSubmissionTime,
                           batchBids, batchActive, batchClosed>>
       ELSE IF res \in {"NotProvider", "InvalidBatch"}
       THEN /\ lastDecryptionRequestTime' =
                   [lastDecryptionRequestTime EXCEPT ![sender] = now]
            /\ emitted' = <<>>
            /\ UNCHANGED <<owner, providers, paused, cooldownSeconds, lastSubmissionTime,
                           batchBids, batchActive, batchClosed, decryptionContexts,
                           requestedHandles>>
       ELSE Revert

\* requestId is the id FHE.requestDecryption returns: one the oracle has not issued.
requestAuctionResultDecryption(sender, batchId, requestId) ==
    LET res == requestAuctionResultDecryptionResult(sender, batchId) IN
    /\ IF res = "ok" THEN requestedHandles[requestId] = <<>>
                     ELSE requestId = CHOOSE r \in RequestIds : TRUE
    /\ lastCall' = Call("requestAuctionResultDecryption", sender, batchId, res)
    /\ now' = now
    /\ IF res = "ok"
       THEN LET cts == <<toBytes32(requestWinner(batchBids[batchId]).encryptedWinningBidAmount)>>
                stateHash == _hashCiphertexts(cts)
            IN
            /\ lastDecryptionRequestTime' =
                   [lastDecryptionRequestTime EXCEPT ![sender] = now]
            /\ requestedHandles' = [requestedHandles EXCEPT ![requestId] = cts]
            /\ decryptionContexts' = [decryptionContexts EXCEPT ![requestId] =
                   [batchId |-> batchId, stateHash |-> stateHash, processed |-> FALSE]]
            /\ emitted' = <<[name |-> "DecryptionRequested", requestId |-> requestId,
                             batchId |-> batchId]>>
            /\ UNCHANGED <<owner, providers, paused, cooldownSeconds, lastSubmissionTime,
                           batchBids, batchActive, batchClosed>>
       ELSE Revert

\* myCallbackResult without the processed check of line 194.
myCallbackResultNoReplayCheck(requestId, cleartexts, proof) ==
    LET batchId == decryptionContexts[requestId].batchId IN
    IF Len(batchBids[batchId]) = 0 THEN "Panic"
    ELSE IF _hashCiphertexts(<<toBytes32(callbackCiphertext(batchBids[batchId]))>>)
                # decryptionContexts[requestId].stateHash THEN "InvalidState"
    ELSE IF ~checkSignatures(requestId, cleartexts, proof) THEN "InvalidProof"
    ELSE "ok"

\* myCallbackResult checking the proof before the state hash.
myCallbackResultProofFirst(requestId, cleartexts, proof) ==
    LET batchId == decryptionContexts[requestId].batchId IN
    IF decryptionContexts[requestId].processed THEN "ReplayDetected"
    ELSE IF ~checkSignatures(requestId, cleartexts, proof) THEN "InvalidProof"
    ELSE IF Len(batchBids[batchId]) = 0 THEN "Panic"
    ELSE IF _hashCiphertexts(<<toBytes32(callbackCiphertext(batchBids[batchId]))>>)
                # decryptionContexts[requestId].stateHash THEN "InvalidState"
    ELSE "ok"

\* myCallbackResult without the proof check of line 222.
myCallbackResultNoProofCheck(requestId, cleartexts, proof) ==
    LET batchId == decryptionContexts[requestId].batchId IN
    IF decryptionContexts[requestId].processed THEN "ReplayDetected"
    ELSE IF Len(batchBids[batchId]) = 0 THEN "Panic"
    ELSE IF _hashCiphertexts(<<toBytes32(callbackCiphertext(batchBids[batchId]))>>)
                # decryptionContexts[requestId].stateHash THEN "InvalidState"
    ELSE "ok"

\* myCallbackResult without the checks of lines 220 and 222.
myCallbackResultTrustingPayload(requestId, cleartexts, proof) ==
    LET batchId == decryptionContexts[requestId].batchId IN
    IF decryptionContexts[requestId].processed THEN "ReplayDetected"
    ELSE IF Len(batchBids[batchId]) = 0 THEN "Panic"
    ELSE "ok"

\* myCallbackResult as if myCallback carried whenNotPaused.
myCallbackResultWhenNotPaused(requestId, cleartexts, proof) ==
    LET batchId == decryptionContexts[requestId].batchId IN
    IF whenNotPaused # "ok" THEN whenNotPaused
    ELSE IF decryptionContexts[requestId].processed THEN "ReplayDetected"
    ELSE IF Len(batchBids[batchId]) = 0 THEN "Panic"
    ELSE IF _hashCiphertexts(<<toBytes32(callbackCiphertext(batchBids[batchId]))>>)
                # decryptionContexts[requestId].stateHash THEN "InvalidState"
    ELSE IF ~checkSignatures(requestId, cleartexts, proof) THEN "InvalidProof"
    ELSE "ok"

\* "Panic" is the compiler's array-bounds fault (batchBids[batchId][0] of an empty array).
myCallbackResult(requestId, cleartexts, proof) ==
    LET batchId == decryptionContexts[requestId].batchId IN
    IF decryptionContexts[requestId].processed THEN "ReplayDetected"
    ELSE IF Len(batchBids[batchId]) = 0 THEN "Panic"
    ELSE IF _hashCiphertexts(<<toBytes32(callbackCiphertext(batchBids[batchId]))>>)
                # decryptionContexts[requestId].stateHash THEN "InvalidState"
    ELSE IF ~checkSignatures(requestId, cleartexts, proof) THEN "InvalidProof"
    ELSE "ok"

\* myCallback marking the context processed when it rejects the delivery.
myCallbackMarkingRejected(sender, requestId, cleartexts, proof) ==
    LET res == myCallbackResult(requestId, cleartexts, proof)
        batchId == decryptionContexts[requestId].batchId
    IN
    /\ lastCall' = CallbackCall(sender, requestId, cleartexts, proof, res)
    /\ now' = now
    /\ IF res = "ok"
       THEN /\ decryptionContexts' = [decryptionContexts EXCEPT ![requestId].processed = TRUE]
            /\ emitted' = <<[name |-> "DecryptionCompleted", requestId |-> requestId,
                             batchId |-> batchId, winningBidAmount |-> cleartexts,
                             winner |-> callbackWinner(batchBids[batchId])]>>
            /\ UNCHANGED <<owner, providers, paused, cooldownSeconds, lastSubmissionTime,
                           lastDecryptionRequestTime, batchBids, batchActive, batchClosed,
                           requestedHandles>>
       ELSE IF res \in {"InvalidState", "InvalidProof"}
       THEN /\ decryptionContexts' = [decryptionContexts EXCEPT ![requestId].processed = TRUE]
            /\ emitted' = <<>>
            /\ UNCHANGED <<owner, providers, paused, cooldownSeconds, lastSubmissionTime,
                           lastDecryptionRequestTime, batchBids, batchActive, batchClosed,
                           requestedHandles>>
       ELSE Revert

myCallback(sender, requestId, cleartexts, proof) ==
    LET res == myCallbackResult(requestId, cleartexts, proof)
        batchId == decryptionContexts[requestId].batchId
    IN
    /\ lastCall' = CallbackCall(sender, requestId, cleartexts, proof, res)
    /\ now' = now
    /\ IF res = "ok"
       THEN /\ decryptionContexts' = [decryptionContexts EXCEPT ![requestId].processed = TRUE]
            /\ emitted' = <<[name |-> "DecryptionCompleted", requestId |-> requestId,
                             batchId |-> batchId, winningBidAmount |-> cleartexts,
                             winner |-> callbackWinner(batchBids[batchId])]>>
            /\ UNCHANGED <<owner, providers, paused, cooldownSeconds, lastSubmissionTime,
                           lastDecryptionRequestTime, batchBids, batchActive, batchClosed,
                           requestedHandles>>
       ELSE Revert

\* ------------------------------------------------------------------ the chain
\* A later block: block.timestamp advances by one second.
Tick ==
    /\ now < StartTime + MaxTicks
    /\ now' = now + 1
    /\ lastCall' = Call("tick", Relayer, now + 1, "ok")
    /\ emitted' = <<>>
    /\ UNCHANGED storage

\* The cleartexts and proofs a callback may carry: every genuine KMS answer (right
\* or wrong for the request it is delivered to) and a forged proof.
CleartextChoices == {Cleartext(h) : h \in AmountHandles}
ProofChoices == {KmsProof(<<h>>) : h \in AmountHandles} \cup {ForgedProof}

\* The auction: batches, bids, decryption requests and callbacks, with the owner
\* pausing and unpausing, all within the deployment block.
Next ==
    \/ \E sender \in Addr, p \in BOOLEAN : setPaused(sender, p)
    \/ \E sender \in Addr, b \in BatchIds : openBatch(sender, b)
    \/ \E sender \in Addr, b \in BatchIds : closeBatch(sender, b)
    \/ \E sender \in Addr, b \in BatchIds,
          x \in AmountHandles \cup {UninitializedHandle},
          y \in ScoreHandles \cup {UninitializedHandle} : submitBid(sender, b, x, y)
    \/ \E sender \in Addr, b \in BatchIds, r \in RequestIds :
          requestAuctionResultDecryption(sender, b, r)
    \/ \E r \in RequestIds, c \in CleartextChoices, p \in ProofChoices :
          myCallback(Relayer, r, c, p)

Spec == Init /\ [][Next]_vars

\* The provider registry: the owner adds and removes providers while both
\* addresses try the provider-only functions and time passes.
NextAccess ==
    \/ \E sender \in Addr, a \in Addr : addProvider(sender, a)
    \/ \E sender \in Addr, a \in Addr : removeProvider(sender, a)
    \/ \E sender \in Addr, b \in BatchIds : openBatch(sender, b)
    \/ \E sender \in Addr, b \in BatchIds : closeBatch(sender, b)
    \/ \E sender \in Addr, b \in BatchIds, x \in {3}, y \in ScoreHandles :
          submitBid(sender, b, x, y)
    \/ \E sender \in Addr, b \in BatchIds, r \in RequestIds :
          requestAuctionResultDecryption(sender, b, r)
    \/ Tick

SpecAccess == Init /\ [][NextAccess]_vars

\* The resolver by itself: batch 1 is closed over every bid sequence of up to
\* MaxScanLen bids (one bid per cooldown window, the clock just past the last
\* one), and the provider requests the decryption that the relayer then delivers
\* with the KMS's answer.
ResolverHandles == {1, 3, 5, 6}
ResolverBids == {Bid(x, y, a) : x \in ResolverHandles, y \in ScoreHandles, a \in Addr}
BidTime(i) == StartTime + (i - 1) * DefaultCooldown
LastBidTime(bids, a) ==
    LET mine == {i \in 1..Len(bids) : bids[i].bidder = a} IN
    IF mine = {} THEN 0 ELSE BidTime(CHOOSE i \in mine : \A j \in mine : j <= i)

InitResolver ==
    /\ owner = Deployer
    /\ providers = [a \in Addr |-> a = Deployer]
    /\ paused = FALSE
    /\ cooldownSeconds = DefaultCooldown
    /\ \E n \in 1..MaxScanLen : \E bids \in [1..n -> ResolverBids] :
          /\ batchBids = [b \in BatchIds |-> IF b = 1 THEN bids ELSE <<>>]
          /\ lastSubmissionTime = [a \in Addr |-> LastBidTime(bids, a)]
    /\ lastDecryptionRequestTime = [a \in Addr |-> 0]
    /\ batchActive = [b \in BatchIds |-> FALSE]
    /\ batchClosed = [b \in BatchIds |-> b = 1]
    /\ decryptionContexts = [r \in RequestIds |-> DefaultContext]
    /\ requestedHandles = [r \in RequestIds |-> <<>>]
    /\ now = BidTime(MaxScanLen + 1)
    /\ lastCall = Call("closeBatch", Deployer, 1, "ok")
    /\ emitted = <<[name |-> "BatchClosed", batchId |-> 1]>>

NextResolver ==
    \/ \E r \in RequestIds : requestAuctionResultDecryption(Deployer, 1, r)
    \/ \E r \in RequestIds :
          /\ requestedHandles[r] # <<>>
          /\ myCallback(Relayer, r, Cleartext(requestedHandles[r][1]),
                        KmsProof(requestedHandles[r]))

SpecResolver == InitResolver /\ [][NextResolver]_vars

\* The rate limiter: the owner sets the cooldown (none, one second, the greatest
\* uint256) while time passes, bids are submitted and decryptions requested.
CooldownChoices == {0, 1, MaxUint}
RateHandles == {1, 3}

NextRate ==
    \/ \E sender \in Addr, c \in CooldownChoices : setCooldownSeconds(sender, c)
    \/ openBatch(Deployer, 0)
    \/ closeBatch(Deployer, 0)
    \/ \E sender \in Addr, b \in BatchIds,
          x \in RateHandles \cup {UninitializedHandle}, y \in ScoreHandles :
          submitBid(sender, b, x, y)
    \/ \E r \in RequestIds : requestAuctionResultDecryption(Deployer, 0, r)
    \/ Tick

SpecRate == Init /\ [][NextRate]_vars

\* The administration: ownership moves between the addresses while both try
\* every owner-only function.
NextAdmin ==
    \/ \E sender \in Addr, newOwner \in Addr : transferOwnership(sender, newOwner)
    \/ \E sender \in Addr, a \in Addr : addProvider(sender, a)
    \/ \E sender \in Addr, a \in Addr : removeProvider(sender, a)
    \/ \E sender \in Addr, p \in BOOLEAN : setPaused(sender, p)
    \/ \E sender \in Addr, c \in CooldownChoices : setCooldownSeconds(sender, c)

SpecAdmin == Init /\ [][NextAdmin]_vars

\* One batch decrypted more than once: the owner may add a provider and drop the
\* cooldown, batch 0 is opened, bid on and closed, either provider requests its
\* decryption and the relayer delivers the KMS's answers.
NextRepeat ==
    \/ \E a \in Addr : addProvider(Deployer, a)
    \/ setCooldownSeconds(Deployer, 0)
    \/ openBatch(Deployer, 0)
    \/ closeBatch(Deployer, 0)
    \/ \E sender \in Addr, x \in AmountHandles, y \in ScoreHandles :
          submitBid(sender, 0, x, y)
    \/ \E sender \in Addr, r \in RequestIds :
          requestAuctionResultDecryption(sender, 0, r)
    \/ \E r \in RequestIds :
          /\ requestedHandles[r] # <<>>
          /\ myCallback(Relayer, r, Cleartext(requestedHandles[r][1]),
                        KmsProof(requestedHandles[r]))

SpecRepeat == Init /\ [][NextRepeat]_vars

\* The oracle delivering, for an issued request, the KMS's answer.
Deliver(r) ==
    /\ requestedHandles[r] # <<>>
    /\ myCallback(Relayer, r, Cleartext(requestedHandles[r][1]),
                  KmsProof(requestedHandles[r]))

\* Governance around pending requests: ownership moves, the owner pauses,
\* removes the deployer from the providers and changes the cooldown, while
\* batches are opened, bid on, closed and requested, and the oracle delivers.
NextGovernance ==
    \/ \E sender \in Addr, newOwner \in Addr : transferOwnership(sender, newOwner)
    \/ \E p \in BOOLEAN : setPaused(Deployer, p)
    \/ removeProvider(Deployer, Deployer)
    \/ setCooldownSeconds(Deployer, 0)
    \/ \E b \in BatchIds : openBatch(Deployer, b)
    \/ closeBatch(Deployer, 0)
    \/ \E b \in BatchIds, y \in ScoreHandles : submitBid(Deployer, b, 3, y)
    \/ \E r \in RequestIds : requestAuctionResultDecryption(Deployer, 0, r)
    \/ \E r \in RequestIds : Deliver(r)

SpecGovernance == Init /\ [][NextGovernance]_vars

\* The same, the oracle being fair: a delivery that stays possible is made.
SpecDelivery == SpecGovernance /\ \A r \in RequestIds : WF_vars(Deliver(r))

\* ------------------------------------------------------------------- claims
\* What the claims speak of, said without the scans: the greatest cleartext
\* amount of a bid sequence and the last position holding it.
MaxAmount(bids) ==
    LET amounts == {Cleartext(bids[i].encryptedBidAmount) : i \in 1..Len(bids)} IN
    CHOOSE m \in amounts : \A n \in amounts : n <= m

LatestMaxIndex(bids) ==
    LET top == {i \in 1..Len(bids) :
                   Cleartext(bids[i].encryptedBidAmount) = MaxAmount(bids)} IN
    CHOOSE i \in top : \A j \in top : j <= i

\* C1: once myCallback has succeeded for a request id its processed flag never
\* returns to false, and every later myCallback for that id fails with
\* ReplayDetected, emits nothing and changes no storage.
C1_ReplayProtection ==
    [][\A r \in RequestIds :
          /\ decryptionContexts[r].processed => decryptionContexts'[r].processed
          /\ (decryptionContexts[r].processed /\ lastCall'.op = "myCallback"
                  /\ lastCall'.arg = r)
                => (lastCall'.result = "ReplayDetected" /\ emitted' = <<>>
                      /\ UNCHANGED storage)]_vars

\* A callback was replayed on a processed request.
C1_Witness ==
    /\ lastCall.op = "myCallback"
    /\ lastCall.result = "ReplayDetected"
    /\ decryptionContexts[lastCall.arg].processed

\* C2: the scan of requestAuctionResultDecryption sends to the oracle the amount
\* of the last bid holding the maximum cleartext amount and names its bidder the
\* winner; a one-bid sequence costs no comparison; amounts [10, 30, 20, 30]
\* select the fourth bid.
C2_ResolverSelectsLatestMaximum ==
    /\ \A r \in RequestIds :
          requestedHandles[r] # <<>> =>
             LET bids == batchBids[decryptionContexts[r].batchId]
                 k == LatestMaxIndex(bids)
             IN /\ requestedHandles[r] = <<bids[k].encryptedBidAmount>>
                /\ requestWinner(bids).winner = bids[k].bidder
                /\ Len(bids) = 1 => requestWinner(bids).comparisons = 0
                /\ Len(bids) > 1 => requestWinner(bids).comparisons = Len(bids) - 1
    /\ LET example == <<Bid(1, 7, "a1"), Bid(5, 7, "a1"), Bid(3, 7, "a2"), Bid(6, 7, "a2")>>
       IN requestWinner(example).encryptedWinningBidAmount = 6

\* A request was made over the sequence of amounts [10, 30, 20, 30].
C2_Witness ==
    /\ lastCall.op = "requestAuctionResultDecryption"
    /\ lastCall.result = "ok"
    /\ Len(batchBids[1]) = 4
    /\ [i \in 1..4 |-> Cleartext(batchBids[1][i].encryptedBidAmount)] = <<10, 30, 20, 30>>
    /\ batchBids[1][2].encryptedBidAmount # batchBids[1][4].encryptedBidAmount
    /\ \E r \in RequestIds : requestedHandles[r] = <<batchBids[1][4].encryptedBidAmount>>

\* C3: a successful myCallback for request r marks r processed and emits exactly
\* one DecryptionCompleted event with r, the batch id of r's context, the maximum
\* cleartext amount of that batch and the bidder of the last bid holding it.
C3_CallbackCompletes ==
    [][(lastCall'.op = "myCallback" /\ lastCall'.result = "ok") =>
          LET r == lastCall'.arg
              b == decryptionContexts[r].batchId
              bids == batchBids[b]
          IN /\ ~decryptionContexts[r].processed
             /\ decryptionContexts' =
                   [decryptionContexts EXCEPT ![r].processed = TRUE]
             /\ emitted' = <<[name |-> "DecryptionCompleted", requestId |-> r,
                              batchId |-> b, winningBidAmount |-> MaxAmount(bids),
                              winner |-> bids[LatestMaxIndex(bids)].bidder]>>]_vars

\* A callback completed an auction of two equal bids by different bidders.
C3_Witness ==
    /\ lastCall.op = "myCallback"
    /\ lastCall.result = "ok"
    /\ LET bids == batchBids[decryptionContexts[lastCall.arg].batchId] IN
          /\ Len(bids) = 2
          /\ Cleartext(bids[1].encryptedBidAmount) = Cleartext(bids[2].encryptedBidAmount)
          /\ bids[1].bidder # bids[2].bidder

\* The lifecycle state of a batch, read from its two flags.
BatchState(active, closed, b) ==
    IF active[b] /\ closed[b] THEN "active and closed"
    ELSE IF active[b] THEN "active"
    ELSE IF closed[b] THEN "closed"
    ELSE "unopened"

\* C4: no batch is ever active and closed at once.
C4_BatchInOneState ==
    \A b \in BatchIds : ~(batchActive[b] /\ batchClosed[b])

\* A batch has just been closed while the other one is active.
C4_Witness ==
    /\ lastCall.op = "closeBatch"
    /\ lastCall.result = "ok"
    /\ batchClosed[lastCall.arg]
    /\ \E b \in BatchIds : batchActive[b]

\* C5: a batch moves only unopened -> active -> closed: every step leaves its
\* state alone or takes one of these two moves, openBatch succeeds only on an
\* unopened batch and closeBatch only on an active one (so each succeeds at most
\* once per batch id).
C5_BatchLifecycle ==
    [][/\ \A b \in BatchIds :
             LET before == BatchState(batchActive, batchClosed, b)
                 after == BatchState(batchActive', batchClosed', b)
             IN \/ after = before
                \/ before = "unopened" /\ after = "active"
                      /\ lastCall'.op = "openBatch" /\ lastCall'.arg = b
                \/ before = "active" /\ after = "closed"
                      /\ lastCall'.op = "closeBatch" /\ lastCall'.arg = b
       /\ (lastCall'.op = "openBatch" /\ lastCall'.result = "ok") =>
             /\ BatchState(batchActive, batchClosed, lastCall'.arg) = "unopened"
             /\ BatchState(batchActive', batchClosed', lastCall'.arg) = "active"
       /\ (lastCall'.op = "closeBatch" /\ lastCall'.result = "ok") =>
             /\ BatchState(batchActive, batchClosed, lastCall'.arg) = "active"
             /\ BatchState(batchActive', batchClosed', lastCall'.arg) = "closed"]_vars

\* A provider tried to open a closed batch again and was refused.
C5_Witness ==
    /\ lastCall.op = "openBatch"
    /\ lastCall.result = "InvalidBatch"
    /\ batchClosed[lastCall.arg]

\* C6: an unopened batch has no bids, and every step either leaves a batch's bid
\* sequence as it is or appends one bid to it while the batch is active; so the
\* sequence of a closed batch never changes.
C6_BidsAppendOnlyWhileActive ==
    /\ [](\A b \in BatchIds :
             BatchState(batchActive, batchClosed, b) = "unopened" => batchBids[b] = <<>>)
    /\ [][\A b \in BatchIds :
             \/ batchBids'[b] = batchBids[b]
             \/ /\ batchActive[b]
                /\ lastCall'.op = "submitBid" /\ lastCall'.arg = b
                /\ Len(batchBids'[b]) = Len(batchBids[b]) + 1
                /\ SubSeq(batchBids'[b], 1, Len(batchBids[b])) = batchBids[b]]_vars

\* A bid was refused on a closed batch that holds bids.
C6_Witness ==
    /\ lastCall.op = "submitBid"
    /\ lastCall.result = "InvalidBatch"
    /\ batchClosed[lastCall.arg]
    /\ Len(batchBids[lastCall.arg]) > 0

ProviderOnlyOps == {"openBatch", "closeBatch", "requestAuctionResultDecryption"}

\* C7: a call of openBatch, closeBatch or requestAuctionResultDecryption by an
\* address whose provider flag is false at the time of the call fails, emits
\* nothing and changes no storage.
C7_OnlyProviders ==
    [][(lastCall'.op \in ProviderOnlyOps /\ ~providers[lastCall'.sender]) =>
          (lastCall'.result # "ok" /\ emitted' = <<>> /\ UNCHANGED storage)]_vars

\* The deployer, who requested a decryption while a provider, lost the flag and
\* was then refused the closing of an active batch.
C7_Witness ==
    /\ lastCall.op = "closeBatch"
    /\ lastCall.result = "NotProvider"
    /\ lastCall.sender = Deployer
    /\ batchActive[lastCall.arg]
    /\ lastDecryptionRequestTime[Deployer] > 0

PausableOps == {"submitBid", "openBatch", "closeBatch", "requestAuctionResultDecryption"}

\* C8 as claimed: while paused every call of the four functions, by any caller,
\* fails with Paused and changes nothing.
C8_AsClaimed ==
    [][(paused /\ lastCall'.op \in PausableOps) =>
          (lastCall'.result = "Paused" /\ emitted' = <<>> /\ UNCHANGED storage)]_vars

\* C8 amended: while paused every call of the four functions fails, emits
\* nothing and changes no storage; the error is Paused, except that openBatch and
\* closeBatch called by a non-provider fail with NotProvider (their onlyProvider
\* modifier runs before whenNotPaused).
C8_PausedCallsFail ==
    [][(paused /\ lastCall'.op \in PausableOps) =>
          /\ emitted' = <<>> /\ UNCHANGED storage
          /\ lastCall'.result =
                IF lastCall'.op \in {"openBatch", "closeBatch"}
                      /\ ~providers[lastCall'.sender]
                THEN "NotProvider" ELSE "Paused"]_vars

\* While paused, a provider was refused the closing of an active batch.
C8_Witness ==
    /\ paused
    /\ lastCall.op = "closeBatch"
    /\ lastCall.result = "Paused"
    /\ batchActive[lastCall.arg]

\* C9 as claimed: while paused no myCallback succeeds and no context becomes
\* processed.
C9_AsClaimed ==
    [][paused =>
          /\ ~(lastCall'.op = "myCallback" /\ lastCall'.result = "ok")
          /\ \A r \in RequestIds :
                decryptionContexts'[r].processed = decryptionContexts[r].processed]_vars

\* C9 amended: while paused no decryption is requested (the oracle receives no
\* handles, no context is created, no DecryptionRequested is emitted); myCallback
\* is not gated by the pause, and the only change to a context while paused is a
\* successful myCallback marking it processed.
C9_PausedBlocksRequestsOnly ==
    [][paused =>
          /\ requestedHandles' = requestedHandles
          /\ ~(lastCall'.op = "requestAuctionResultDecryption" /\ lastCall'.result = "ok")
          /\ \A i \in 1..Len(emitted') : emitted'[i].name # "DecryptionRequested"
          /\ \A r \in RequestIds :
                decryptionContexts'[r] # decryptionContexts[r] =>
                   /\ lastCall'.op = "myCallback" /\ lastCall'.arg = r
                   /\ lastCall'.result = "ok"
                   /\ decryptionContexts'[r] =
                         [decryptionContexts[r] EXCEPT !.processed = TRUE]]_vars

\* A callback completed a pending request while the contract was paused.
C9_Witness ==
    /\ paused
    /\ lastCall.op = "myCallback"
    /\ lastCall.result = "ok"
    /\ decryptionContexts[lastCall.arg].processed

\* C10: a successful setPaused changes the paused flag and nothing else, and a
\* call that fails changes no storage; so after setPaused(true), rejected calls
\* and setPaused(false) the storage is what it was before the pause.
C10_SetPausedFrame ==
    [][/\ (lastCall'.op = "setPaused" /\ lastCall'.result = "ok") =>
             /\ paused' = lastCall'.arg
             /\ emitted' = <<[name |-> "PausedSet", paused |-> lastCall'.arg]>>
             /\ UNCHANGED <<owner, providers, cooldownSeconds, lastSubmissionTime,
                            lastDecryptionRequestTime, batchBids, batchActive,
                            batchClosed, decryptionContexts, requestedHandles>>
       /\ lastCall'.result # "ok" => UNCHANGED storage]_vars

\* The owner has just unpaused a contract holding an active batch, a closed
\* batch with bids and a decryption context.
C10_Witness ==
    /\ lastCall.op = "setPaused"
    /\ lastCall.result = "ok"
    /\ lastCall.arg = FALSE
    /\ ~paused
    /\ \E b \in BatchIds : batchActive[b]
    /\ \E b \in BatchIds : batchClosed[b] /\ Len(batchBids[b]) > 0
    /\ \E r \in RequestIds : requestedHandles[r] # <<>>

\* C11: lastSubmissionTime[a] is the time of a's last successful submitBid (only
\* that call writes it, and it succeeds only when cooldownSeconds is at most the
\* current time); with the contract not paused and t that time, a submitBid by a
\* at a time before t + cooldownSeconds fails with CooldownActive and changes
\* nothing, and one at t + cooldownSeconds or later passes the rate limiter: it
\* fails with InvalidBatch when the batch is not active and otherwise succeeds
\* unless a ciphertext is uninitialized.  (t + cooldownSeconds is within uint256
\* whenever cooldownSeconds is what it was at time t.)
C11_SubmissionCooldown ==
    [][/\ \A a \in Addr :
             lastSubmissionTime'[a] # lastSubmissionTime[a] =>
                /\ lastCall' = Call("submitBid", a, lastCall'.arg, "ok")
                /\ lastSubmissionTime'[a] = now
                /\ cooldownSeconds <= now
       /\ (lastCall'.op = "submitBid" /\ ~paused) =>
             LET a == lastCall'.sender
                 t == lastSubmissionTime[a]
                 c == cooldownSeconds
             IN (t > 0 /\ t + c <= MaxUint) =>
                   /\ now < t + c =>
                         (lastCall'.result = "CooldownActive" /\ emitted' = <<>>
                             /\ UNCHANGED storage)
                   /\ now >= t + c =>
                         IF batchActive[lastCall'.arg]
                         THEN lastCall'.result \in {"ok", "NotInitialized"}
                         ELSE lastCall'.result = "InvalidBatch"]_vars

\* With a cooldown of one second, an address that bid at the deployment time
\* has bid again one second later.
C11_Witness ==
    /\ lastCall.op = "submitBid"
    /\ lastCall.result = "ok"
    /\ cooldownSeconds = 1
    /\ now = StartTime + 1
    /\ lastSubmissionTime[lastCall.sender] = now
    /\ Len(batchBids[0]) = 2
    /\ batchBids[0][1].bidder = lastCall.sender
    /\ batchBids[0][2].bidder = lastCall.sender

BodyErrorsOfSubmitBid == {"InvalidBatch", "NotInitialized"}

\* C12 as claimed: a submitBid failing with InvalidBatch or NotInitialized leaves
\* lastSubmissionTime[caller] at the time of that call, and the caller's next
\* submitBid, made within the cooldown, fails with CooldownActive.
C12_AsClaimed ==
    [][/\ (lastCall'.op = "submitBid" /\ lastCall'.result \in BodyErrorsOfSubmitBid) =>
             lastSubmissionTime'[lastCall'.sender] = now
       /\ (/\ lastCall.op = "submitBid" /\ lastCall.result \in BodyErrorsOfSubmitBid
           /\ lastCall'.op = "submitBid" /\ lastCall'.sender = lastCall.sender
           /\ cooldownSeconds > 0) =>
             lastCall'.result = "CooldownActive"]_vars

\* C12 amended: the rate limit is charged on success only.  A submitBid writes
\* lastSubmissionTime[caller] when it succeeds and leaves both timestamp maps as
\* they were when it fails (the revert undoes the modifier's write), so the
\* caller's next submitBid after one that failed with InvalidBatch or
\* NotInitialized is not refused with CooldownActive.
C12_ChargedOnSuccessOnly ==
    [][/\ lastCall'.op = "submitBid" =>
             /\ lastSubmissionTime' =
                   IF lastCall'.result = "ok"
                   THEN [lastSubmissionTime EXCEPT ![lastCall'.sender] = now]
                   ELSE lastSubmissionTime
             /\ lastDecryptionRequestTime' = lastDecryptionRequestTime
       /\ (/\ lastCall.op = "submitBid" /\ lastCall.result \in BodyErrorsOfSubmitBid
           /\ lastCall'.op = "submitBid" /\ lastCall'.sender = lastCall.sender) =>
             lastCall'.result \in {"ok"} \cup BodyErrorsOfSubmitBid]_vars

\* A bid on a batch that is not active has just failed with InvalidBatch; the
\* caller's timestamp is still zero, the cooldown is not, and a batch is active
\* for the caller's next bid.
C12_Witness ==
    /\ lastCall.op = "submitBid"
    /\ lastCall.result = "InvalidBatch"
    /\ lastSubmissionTime[lastCall.sender] = 0
    /\ cooldownSeconds > 0
    /\ ~paused
    /\ \E b \in BatchIds : batchActive[b]

NamedErrors == {"NotOwner", "NotProvider", "Paused", "CooldownActive", "InvalidBatch",
                "NotInitialized", "InvalidState", "InvalidProof", "ReplayDetected"}

\* C13: a call that fails with one of the nine named errors is an atomic abort:
\* owner, provider flags, paused flag, cooldownSeconds, both timestamp maps,
\* batch flags, bid sequences and decryption contexts are as before the call, the
\* oracle has received nothing, and no event is emitted.
C13_FailuresAreAtomic ==
    [][lastCall'.result \in NamedErrors =>
          /\ owner' = owner /\ providers' = providers /\ paused' = paused
          /\ cooldownSeconds' = cooldownSeconds
          /\ lastSubmissionTime' = lastSubmissionTime
          /\ lastDecryptionRequestTime' = lastDecryptionRequestTime
          /\ batchActive' = batchActive /\ batchClosed' = batchClosed
          /\ batchBids' = batchBids
          /\ decryptionContexts' = decryptionContexts
          /\ requestedHandles' = requestedHandles
          /\ emitted' = <<>>]_vars

\* A decryption request passed the pause check and the rate limiter, then failed
\* with NotProvider: the caller's request timestamp is still zero.
C13_Witness ==
    /\ lastCall.op = "requestAuctionResultDecryption"
    /\ lastCall.result = "NotProvider"
    /\ lastDecryptionRequestTime[lastCall.sender] = 0
    /\ batchClosed[lastCall.arg]
    /\ Len(batchBids[lastCall.arg]) > 0

\* The hash myCallback has to find in the context of request r: that of the
\* amount ciphertext of the last bid holding the maximum of r's batch.
ExpectedHash(bids) ==
    _hashCiphertexts(<<toBytes32(bids[LatestMaxIndex(bids)].encryptedBidAmount)>>)

\* C14: a myCallback for an unprocessed request id whose batch holds bids and
\* whose stored stateHash differs from the hash of the batch's current winning
\* ciphertext fails with InvalidState, whatever cleartexts and proof it carries
\* (the KMS's own answer included); the processed flag stays false, nothing is
\* emitted and no storage changes.
C14_HashMismatchRejected ==
    [][lastCall'.op = "myCallback" =>
          LET r == lastCall'.arg
              bids == batchBids[decryptionContexts[r].batchId]
          IN (/\ ~decryptionContexts[r].processed
              /\ Len(bids) > 0
              /\ ExpectedHash(bids) # decryptionContexts[r].stateHash) =>
                /\ lastCall'.result = "InvalidState"
                /\ ~decryptionContexts'[r].processed
                /\ emitted' = <<>>
                /\ UNCHANGED storage]_vars

\* A callback carrying a proof the KMS did sign, for a request id whose context
\* holds no hash while batch 0 holds bids, was refused with InvalidState.
C14_Witness ==
    /\ lastCall.op = "myCallback"
    /\ lastCall.result = "InvalidState"
    /\ lastCall.proof # ForgedProof
    /\ lastCall.proof.cleartexts = lastCall.cleartexts
    /\ ~decryptionContexts[lastCall.arg].processed
    /\ Len(batchBids[decryptionContexts[lastCall.arg].batchId]) > 0

\* C15: a myCallback for an unprocessed request id whose stored stateHash equals
\* the hash of its batch's winning ciphertext, carrying a proof that
\* checkSignatures rejects for the request id and the cleartexts, fails with
\* InvalidProof; the processed flag stays false, nothing is emitted and no
\* storage changes.
C15_BadProofRejected ==
    [][lastCall'.op = "myCallback" =>
          LET r == lastCall'.arg
              bids == batchBids[decryptionContexts[r].batchId]
          IN (/\ ~decryptionContexts[r].processed
              /\ Len(bids) > 0
              /\ ExpectedHash(bids) = decryptionContexts[r].stateHash
              /\ ~checkSignatures(r, lastCall'.cleartexts, lastCall'.proof)) =>
                /\ lastCall'.result = "InvalidProof"
                /\ ~decryptionContexts'[r].processed
                /\ emitted' = <<>>
                /\ UNCHANGED storage]_vars

\* A callback for a pending request carried the KMS's proof for the requested
\* handle with another cleartext, and was refused with InvalidProof.
C15_Witness ==
    /\ lastCall.op = "myCallback"
    /\ lastCall.result = "InvalidProof"
    /\ requestedHandles[lastCall.arg] # <<>>
    /\ lastCall.proof.handles = requestedHandles[lastCall.arg]
    /\ lastCall.proof.cleartexts # lastCall.cleartexts
    /\ ~decryptionContexts[lastCall.arg].processed

RejectedResults == {"InvalidState", "InvalidProof"}

\* C16 as claimed: of two deliveries in a row for one issued request id, the
\* second fails with ReplayDetected whether the first succeeded or was rejected
\* with InvalidState or InvalidProof.
C16_AsClaimed ==
    [][(/\ lastCall.op = "myCallback"
        /\ requestedHandles[lastCall.arg] # <<>>
        /\ lastCall.result \in {"ok"} \cup RejectedResults
        /\ lastCall'.op = "myCallback"
        /\ lastCall'.arg = lastCall.arg) =>
          lastCall'.result = "ReplayDetected"]_vars

\* C16 amended: an issued request is Requested until a delivery succeeds and
\* Completed from then on; there is no Rejected state.  A delivery fails with
\* ReplayDetected exactly when an earlier one succeeded (the context is
\* processed); a delivery for a pending request succeeds when checkSignatures
\* accepts it and fails with InvalidProof otherwise, and only the successful one
\* marks the context processed; so the delivery that follows a rejected one is
\* judged on its own payload, and the one that follows a success is a replay.
C16_ReplayOnlyAfterCompletion ==
    [][lastCall'.op = "myCallback" /\ requestedHandles[lastCall'.arg] # <<>> =>
          LET r == lastCall'.arg IN
          /\ lastCall'.result = "ReplayDetected" <=> decryptionContexts[r].processed
          /\ ~decryptionContexts[r].processed =>
                lastCall'.result =
                   IF checkSignatures(r, lastCall'.cleartexts, lastCall'.proof)
                   THEN "ok" ELSE "InvalidProof"
          /\ decryptionContexts'[r].processed =
                (decryptionContexts[r].processed \/ lastCall'.result = "ok")
          /\ (lastCall.op = "myCallback" /\ lastCall.arg = r) =>
                /\ lastCall.result \in RejectedResults =>
                      lastCall'.result # "ReplayDetected"
                /\ lastCall.result = "ok" => lastCall'.result = "ReplayDetected"]_vars

\* A forged delivery for an issued request was rejected and the request is
\* still pending.
C16_Witness ==
    /\ lastCall.op = "myCallback"
    /\ lastCall.result = "InvalidProof"
    /\ lastCall.proof = ForgedProof
    /\ requestedHandles[lastCall.arg] # <<>>
    /\ decryptionContexts[lastCall.arg] # DefaultContext
    /\ ~decryptionContexts[lastCall.arg].processed

OwnerOnlyOps == {"transferOwnership", "addProvider", "removeProvider", "setPaused",
                 "setCooldownSeconds"}

\* C17: a call of transferOwnership, addProvider, removeProvider, setPaused or
\* setCooldownSeconds by an address other than the current owner fails with
\* NotOwner, changes no storage and emits nothing; a former owner and a provider
\* are refused like anyone else.
C17_OnlyOwner ==
    [][(lastCall'.op \in OwnerOnlyOps /\ lastCall'.sender # owner) =>
          (lastCall'.result = "NotOwner" /\ emitted' = <<>> /\ UNCHANGED storage)]_vars

\* The deployer, still a provider, gave the ownership away and was then refused
\* taking it back.
C17_Witness ==
    /\ lastCall.op = "transferOwnership"
    /\ lastCall.sender = Deployer
    /\ lastCall.arg = Deployer
    /\ lastCall.result = "NotOwner"
    /\ owner # Deployer
    /\ providers[Deployer]

\* C18: a requestAuctionResultDecryption by a provider, not paused and outside
\* its cooldown, on a batch that is not closed or holds no bid fails with
\* InvalidBatch and changes nothing; and every context a request has created
\* names a batch that is closed and holds at least one bid.
C18_RequestNeedsClosedBatchWithBids ==
    /\ [](\A r \in RequestIds :
             (requestedHandles[r] # <<>> \/ decryptionContexts[r] # DefaultContext) =>
                /\ batchClosed[decryptionContexts[r].batchId]
                /\ ~batchActive[decryptionContexts[r].batchId]
                /\ Len(batchBids[decryptionContexts[r].batchId]) >= 1)
    /\ [][(/\ lastCall'.op = "requestAuctionResultDecryption"
           /\ providers[lastCall'.sender]
           /\ ~paused
           /\ now >= lastDecryptionRequestTime[lastCall'.sender] + cooldownSeconds
           /\ (~batchClosed[lastCall'.arg] \/ Len(batchBids[lastCall'.arg]) = 0)) =>
             (lastCall'.result = "InvalidBatch" /\ emitted' = <<>>
                 /\ UNCHANGED storage)]_vars

\* A provider outside its cooldown was refused the decryption of a batch that
\* holds bids and is still active.
C18_Witness ==
    /\ lastCall.op = "requestAuctionResultDecryption"
    /\ lastCall.result = "InvalidBatch"
    /\ providers[lastCall.sender]
    /\ lastDecryptionRequestTime[lastCall.sender] = 0
    /\ batchActive[lastCall.arg]
    /\ Len(batchBids[lastCall.arg]) > 0

\* C19: whatever the oracle has been sent for a request is one handle, the
\* amount handle of the last bid holding the maximum of the request's batch; it
\* is no bid's targeting-score handle and not the amount handle of a bid with a
\* different amount ciphertext; and a successful request sends to the oracle
\* for one request id only.
C19_OnlyWinningAmountSent ==
    /\ [](\A r \in RequestIds :
             requestedHandles[r] # <<>> =>
                LET bids == batchBids[decryptionContexts[r].batchId]
                    selected == bids[LatestMaxIndex(bids)]
                IN /\ Len(requestedHandles[r]) = 1
                   /\ requestedHandles[r][1] = selected.encryptedBidAmount
                   /\ \A b \in BatchIds : \A i \in 1..Len(batchBids[b]) :
                         /\ requestedHandles[r][1] # batchBids[b][i].encryptedTargetingScore
                         /\ (b = decryptionContexts[r].batchId
                               /\ batchBids[b][i].encryptedBidAmount
                                     # selected.encryptedBidAmount) =>
                               requestedHandles[r][1] # batchBids[b][i].encryptedBidAmount)
    /\ [][\A r \in RequestIds :
             requestedHandles'[r] # requestedHandles[r] =>
                /\ requestedHandles[r] = <<>>
                /\ lastCall'.op = "requestAuctionResultDecryption"
                /\ lastCall'.result = "ok"
                /\ \A q \in RequestIds \ {r} :
                      requestedHandles'[q] = requestedHandles[q]]_vars

\* Two decryptions were requested for a batch whose first bid (handle 3) beats
\* its second (handle 1): both requests sent handle 3.
C19_Witness ==
    /\ lastCall.op = "requestAuctionResultDecryption"
    /\ lastCall.result = "ok"
    /\ Len(batchBids[0]) = 2
    /\ batchBids[0][1].encryptedBidAmount = 3
    /\ batchBids[0][2].encryptedBidAmount = 1
    /\ \A r \in RequestIds : requestedHandles[r] = <<3>>

\* C20 as claimed: a call ends well or with one of the nine named errors, and a
\* myCallback for a request id that no request was issued under fails with
\* InvalidState.
C20_AsClaimed ==
    /\ lastCall.result \in {"ok"} \cup NamedErrors
    /\ (lastCall.op = "myCallback" /\ requestedHandles[lastCall.arg] = <<>>) =>
          lastCall.result = "InvalidState"

\* A callback for a request id nobody issued, while batch 0 holds no bid, ended
\* in the array-bounds fault.
C20_Witness ==
    /\ lastCall.op = "myCallback"
    /\ lastCall.result = "Panic"
    /\ requestedHandles[lastCall.arg] = <<>>
    /\ decryptionContexts[lastCall.arg] = DefaultContext
    /\ batchBids[0] = <<>>

\* C22: openBatch by a provider while not paused succeeds exactly when the batch
\* is unopened, and then sets its active flag, emits BatchOpened and changes
\* nothing else; on an active or a closed batch it fails with InvalidBatch and
\* changes nothing, so an openBatch right after a successful one on the same id
\* fails.
C22_OpenBatchCreatesOnce ==
    [][(lastCall'.op = "openBatch" /\ providers[lastCall'.sender] /\ ~paused) =>
          LET b == lastCall'.arg IN
          /\ IF ~batchActive[b] /\ ~batchClosed[b]
             THEN /\ lastCall'.result = "ok"
                  /\ batchActive' = [batchActive EXCEPT ![b] = TRUE]
                  /\ emitted' = <<[name |-> "BatchOpened", batchId |-> b]>>
                  /\ UNCHANGED <<owner, providers, paused, cooldownSeconds,
                                 lastSubmissionTime, lastDecryptionRequestTime,
                                 batchBids, batchClosed, decryptionContexts,
                                 requestedHandles>>
             ELSE /\ lastCall'.result = "InvalidBatch"
                  /\ emitted' = <<>>
                  /\ UNCHANGED storage
          /\ (lastCall.op = "openBatch" /\ lastCall.result = "ok" /\ lastCall.arg = b) =>
                lastCall'.result = "InvalidBatch"]_vars

\* A provider was refused the opening of a batch that is active and holds a bid.
C22_Witness ==
    /\ lastCall.op = "openBatch"
    /\ lastCall.result = "InvalidBatch"
    /\ providers[lastCall.sender]
    /\ batchActive[lastCall.arg]
    /\ Len(batchBids[lastCall.arg]) = 1

\* C23: closeBatch by a provider while not paused succeeds exactly when the
\* batch is active, and then clears its active flag, sets its closed flag, emits
\* BatchClosed and changes nothing else; on an unopened or a closed batch it
\* fails with InvalidBatch and changes nothing, so the second of two closeBatch
\* calls on an id fails.
C23_CloseBatchNeedsActive ==
    [][(lastCall'.op = "closeBatch" /\ providers[lastCall'.sender] /\ ~paused) =>
          LET b == lastCall'.arg IN
          /\ IF batchActive[b]
             THEN /\ lastCall'.result = "ok"
                  /\ batchActive' = [batchActive EXCEPT ![b] = FALSE]
                  /\ batchClosed' = [batchClosed EXCEPT ![b] = TRUE]
                  /\ emitted' = <<[name |-> "BatchClosed", batchId |-> b]>>
                  /\ UNCHANGED <<owner, providers, paused, cooldownSeconds,
                                 lastSubmissionTime, lastDecryptionRequestTime,
                                 batchBids, decryptionContexts, requestedHandles>>
             ELSE /\ lastCall'.result = "InvalidBatch"
                  /\ emitted' = <<>>
                  /\ UNCHANGED storage
          /\ (lastCall.op = "closeBatch" /\ lastCall.result = "ok" /\ lastCall.arg = b) =>
                lastCall'.result = "InvalidBatch"]_vars

\* A provider was refused the closing of a batch that was never opened, while
\* the other batch is closed.
C23_Witness ==
    /\ lastCall.op = "closeBatch"
    /\ lastCall.result = "InvalidBatch"
    /\ providers[lastCall.sender]
    /\ ~batchActive[lastCall.arg] /\ ~batchClosed[lastCall.arg]
    /\ \E b \in BatchIds : batchClosed[b]

\* C24: the two rate limiters keep separate clocks per address.  A successful
\* submitBid writes lastSubmissionTime[caller] and the batch's bid sequence and
\* nothing else; a successful requestAuctionResultDecryption writes
\* lastDecryptionRequestTime[caller], the new context and the oracle's record
\* and nothing else; each call is refused for its cooldown according to its own
\* clock alone, so a request made inside the caller's submission window is not
\* refused with CooldownActive when its own window has passed, and the reverse.
C24_IndependentRateLimiters ==
    [][/\ (lastCall'.op = "submitBid" /\ lastCall'.result = "ok") =>
             /\ lastSubmissionTime' =
                   [lastSubmissionTime EXCEPT ![lastCall'.sender] = now]
             /\ \A b \in BatchIds \ {lastCall'.arg} : batchBids'[b] = batchBids[b]
             /\ UNCHANGED <<owner, providers, paused, cooldownSeconds,
                            lastDecryptionRequestTime, batchActive, batchClosed,
                            decryptionContexts, requestedHandles>>
       /\ (lastCall'.op = "requestAuctionResultDecryption" /\ lastCall'.result = "ok") =>
             /\ lastDecryptionRequestTime' =
                   [lastDecryptionRequestTime EXCEPT ![lastCall'.sender] = now]
             /\ UNCHANGED <<owner, providers, paused, cooldownSeconds,
                            lastSubmissionTime, batchBids, batchActive, batchClosed>>
       /\ (lastCall'.op = "submitBid" /\ ~paused
              /\ lastSubmissionTime[lastCall'.sender] + cooldownSeconds <= now) =>
             lastCall'.result \in {"ok", "InvalidBatch", "NotInitialized"}
       /\ (lastCall'.op = "requestAuctionResultDecryption" /\ ~paused
              /\ lastDecryptionRequestTime[lastCall'.sender] + cooldownSeconds <= now) =>
             lastCall'.result \in {"ok", "NotProvider", "InvalidBatch"}]_vars

\* The deployer, inside the submission window it opened with its bid, has
\* requested a decryption.
C24_Witness ==
    /\ lastCall.op = "requestAuctionResultDecryption"
    /\ lastCall.result = "ok"
    /\ cooldownSeconds > 0
    /\ lastSubmissionTime[lastCall.sender] > 0
    /\ now < lastSubmissionTime[lastCall.sender] + cooldownSeconds
    /\ lastDecryptionRequestTime[lastCall.sender] = now

RateLimitedOps == {"submitBid", "requestAuctionResultDecryption"}

\* The clock a rate-limited function reads for its caller.
LastUse(op, a) ==
    IF op = "submitBid" THEN lastSubmissionTime[a] ELSE lastDecryptionRequestTime[a]

\* C28: both rate limiters read the cooldownSeconds of the moment and the stored
\* time of the caller's last use.  While not paused, a submitBid or a
\* requestAuctionResultDecryption is stopped by its rate limiter exactly when
\* the current time is before last use + cooldownSeconds (with CooldownActive,
\* or the arithmetic fault when that sum exceeds uint256); a successful
\* setCooldownSeconds writes cooldownSeconds alone, leaving the stored times, so
\* it applies to running windows: after setCooldownSeconds(0) no call is
\* stopped by a rate limiter, and raising the cooldown stops a caller whose
\* window had passed.
C28_CooldownReadAtCallTime ==
    [][/\ (lastCall'.op \in RateLimitedOps /\ ~paused) =>
             LET t == LastUse(lastCall'.op, lastCall'.sender) IN
             /\ lastCall'.result \in {"CooldownActive", "Panic"}
                   <=> now < t + cooldownSeconds
             /\ lastCall'.result = "Panic" <=> t + cooldownSeconds > MaxUint
       /\ (lastCall'.op = "setCooldownSeconds" /\ lastCall'.result = "ok") =>
             /\ cooldownSeconds' = lastCall'.arg
             /\ UNCHANGED <<owner, providers, paused, lastSubmissionTime,
                            lastDecryptionRequestTime, batchBids, batchActive,
                            batchClosed, decryptionContexts, requestedHandles>>
       /\ (lastCall.op = "setCooldownSeconds" /\ lastCall.result = "ok"
              /\ lastCall.arg = 0 /\ lastCall'.op \in RateLimitedOps) =>
             lastCall'.result \notin {"CooldownActive", "Panic"}]_vars

\* An address bid twice at the deployment time, which a cooldown of zero
\* allowed; the cooldown is now one second and its third bid was refused.
C28_Witness ==
    /\ lastCall.op = "submitBid"
    /\ lastCall.result = "CooldownActive"
    /\ now = StartTime
    /\ cooldownSeconds = 1
    /\ Len(batchBids[0]) = 2
    /\ batchBids[0][1].bidder = lastCall.sender
    /\ batchBids[0][2].bidder = lastCall.sender

\* C25: addProvider(a) and removeProvider(a) by the owner always succeed, set
\* the flag of a to true, respectively false, and write nothing else; so on an
\* address that already is, respectively is not, a provider they leave the
\* storage as it is, and applying either twice gives the state applying it once
\* gives.  Each call emits its event.
C25_ProviderFlagIdempotent ==
    [][/\ (lastCall'.op = "addProvider" /\ lastCall'.sender = owner) =>
             /\ lastCall'.result = "ok"
             /\ providers' = [providers EXCEPT ![lastCall'.arg] = TRUE]
             /\ emitted' = <<[name |-> "ProviderAdded", provider |-> lastCall'.arg]>>
             /\ providers[lastCall'.arg] => UNCHANGED storage
       /\ (lastCall'.op = "removeProvider" /\ lastCall'.sender = owner) =>
             /\ lastCall'.result = "ok"
             /\ providers' = [providers EXCEPT ![lastCall'.arg] = FALSE]
             /\ emitted' = <<[name |-> "ProviderRemoved", provider |-> lastCall'.arg]>>
             /\ ~providers[lastCall'.arg] => UNCHANGED storage
       /\ lastCall'.op \in {"addProvider", "removeProvider"} =>
             UNCHANGED <<owner, paused, cooldownSeconds, lastSubmissionTime,
                         lastDecryptionRequestTime, batchBids, batchActive,
                         batchClosed, decryptionContexts, requestedHandles>>]_vars

\* The owner, no provider itself any more, has added the other address, which
\* is a provider.
C25_Witness ==
    /\ lastCall.op = "addProvider"
    /\ lastCall.result = "ok"
    /\ lastCall.sender = owner
    /\ lastCall.arg # owner
    /\ providers[lastCall.arg]
    /\ ~providers[owner]

\* C26: for every request the oracle was sent, in every later state, the batch
\* of its context holds bids and the hash myCallback recomputes over them is the
\* stored stateHash; so no myCallback for an issued request id fails with
\* InvalidState (or on an empty batch).
C26_HashCheckNeverFiresForIssued ==
    /\ [](\A r \in RequestIds :
             requestedHandles[r] # <<>> =>
                LET bids == batchBids[decryptionContexts[r].batchId] IN
                /\ Len(bids) >= 1
                /\ _hashCiphertexts(<<toBytes32(callbackCiphertext(bids))>>)
                      = decryptionContexts[r].stateHash)
    /\ [][(lastCall'.op = "myCallback" /\ requestedHandles[lastCall'.arg] # <<>>) =>
             lastCall'.result \in {"ok", "InvalidProof", "ReplayDetected"}]_vars

\* A delivery for an issued request over two tied bids under different handles
\* passed the hash check and was refused for its proof.
C26_Witness ==
    /\ lastCall.op = "myCallback"
    /\ lastCall.result = "InvalidProof"
    /\ requestedHandles[lastCall.arg] # <<>>
    /\ LET bids == batchBids[decryptionContexts[lastCall.arg].batchId] IN
          /\ Len(bids) = 2
          /\ bids[1].encryptedBidAmount # bids[2].encryptedBidAmount
          /\ Cleartext(bids[1].encryptedBidAmount) = Cleartext(bids[2].encryptedBidAmount)

\* The bid each of the three scans ends on.
RequestSelected(bids) ==
    IF Len(bids) = 1 THEN bids[1] ELSE requestScan(bids, 2, bids[1], 0).highestBid
CiphertextSelected(bids) ==
    IF Len(bids) = 1 THEN bids[1] ELSE callbackCiphertextScan(bids, 2, bids[1])
WinnerSelected(bids) ==
    IF Len(bids) = 1 THEN bids[1] ELSE callbackWinnerScan(bids, 2, bids[1])

\* C27: on every non-empty bid sequence the scan of
\* requestAuctionResultDecryption and the two scans of myCallback end on the
\* same bid, the last one holding the maximum; and a completed callback names as
\* winner the bidder of the bid whose amount handle was sent to the oracle at
\* request time and whose cleartext the event carries.
C27_ScansAgree ==
    /\ [](\A b \in BatchIds :
             LET bids == batchBids[b] IN
             Len(bids) >= 1 =>
                /\ RequestSelected(bids) = bids[LatestMaxIndex(bids)]
                /\ CiphertextSelected(bids) = RequestSelected(bids)
                /\ WinnerSelected(bids) = RequestSelected(bids)
                /\ requestWinner(bids).encryptedWinningBidAmount = callbackCiphertext(bids)
                /\ requestWinner(bids).winner = callbackWinner(bids))
    /\ [][(lastCall'.op = "myCallback" /\ lastCall'.result = "ok") =>
             LET r == lastCall'.arg
                 bids == batchBids[decryptionContexts[r].batchId]
                 selected == bids[LatestMaxIndex(bids)]
             IN /\ requestedHandles[r] = <<selected.encryptedBidAmount>>
                /\ decryptionContexts[r].stateHash
                      = _hashCiphertexts(<<selected.encryptedBidAmount>>)
                /\ Len(emitted') = 1
                /\ emitted'[1].winner = selected.bidder
                /\ emitted'[1].winningBidAmount
                      = Cleartext(selected.encryptedBidAmount)]_vars

\* A callback completed the auction of amounts [30, 30, 10], the tied bids
\* being of different bidders and under different handles: the second one won.
C27_Witness ==
    /\ lastCall.op = "myCallback"
    /\ lastCall.result = "ok"
    /\ Len(batchBids[1]) = 3
    /\ [i \in 1..3 |-> Cleartext(batchBids[1][i].encryptedBidAmount)] = <<30, 30, 10>>
    /\ batchBids[1][1].encryptedBidAmount # batchBids[1][2].encryptedBidAmount
    /\ batchBids[1][1].bidder # batchBids[1][2].bidder
    /\ emitted[1].winner = batchBids[1][2].bidder

\* C29: a context is written only by a successful
\* requestAuctionResultDecryption, which creates it unprocessed for a request id
\* the oracle had not issued, with the batch id of the call, and emits
\* DecryptionRequested for that id and batch, and by a successful myCallback,
\* which marks the context of an issued request processed and emits
\* DecryptionCompleted with the context's batch id; a myCallback for a request
\* id never issued does not succeed; so every processed context is one a
\* request created.
C29_CompletionFollowsRequest ==
    /\ [](\A r \in RequestIds :
             decryptionContexts[r].processed =>
                (requestedHandles[r] # <<>> /\ decryptionContexts[r].stateHash # ZeroHash))
    /\ [][/\ \A r \in RequestIds :
                decryptionContexts'[r] # decryptionContexts[r] =>
                   \/ /\ requestedHandles[r] = <<>>
                      /\ decryptionContexts[r] = DefaultContext
                      /\ lastCall'.op = "requestAuctionResultDecryption"
                      /\ lastCall'.result = "ok"
                      /\ decryptionContexts'[r].batchId = lastCall'.arg
                      /\ ~decryptionContexts'[r].processed
                      /\ emitted' = <<[name |-> "DecryptionRequested", requestId |-> r,
                                       batchId |-> lastCall'.arg]>>
                   \/ /\ requestedHandles[r] # <<>>
                      /\ lastCall'.op = "myCallback" /\ lastCall'.arg = r
                      /\ lastCall'.result = "ok"
                      /\ decryptionContexts'[r] =
                            [decryptionContexts[r] EXCEPT !.processed = TRUE]
          /\ (lastCall'.op = "myCallback" /\ requestedHandles[lastCall'.arg] = <<>>) =>
                (lastCall'.result # "ok" /\ emitted' = <<>> /\ UNCHANGED storage)
          /\ \A i \in 1..Len(emitted') :
                emitted'[i].name = "DecryptionCompleted" =>
                   /\ requestedHandles[emitted'[i].requestId] # <<>>
                   /\ emitted'[i].batchId
                         = decryptionContexts[emitted'[i].requestId].batchId
                   /\ decryptionContexts'[emitted'[i].requestId].processed]_vars

\* A callback completed a request issued for batch 1 while the other request id
\* was never issued.
C29_Witness ==
    /\ lastCall.op = "myCallback"
    /\ lastCall.result = "ok"
    /\ decryptionContexts[lastCall.arg].batchId = 1
    /\ decryptionContexts[lastCall.arg].processed
    /\ \E q \in RequestIds \ {lastCall.arg} :
          requestedHandles[q] = <<>> /\ decryptionContexts[q] = DefaultContext

\* C30: a successful request on a closed batch creates a context of its own for
\* a request id not used before and leaves every other context, those of the
\* same batch included, as it is; as long as an issued request is pending, the
\* KMS's answer for it is accepted, whatever became of the other requests; a
\* closed batch stays closed with the bids it has; and every DecryptionCompleted
\* names the bidder of the last bid holding the maximum of its batch, so all
\* completions of one batch name the same winner.
C30_RepeatedDecryptionSameWinner ==
    /\ [](\A r \in RequestIds :
             (requestedHandles[r] # <<>> /\ ~decryptionContexts[r].processed) =>
                myCallbackResult(r, Cleartext(requestedHandles[r][1]),
                                 KmsProof(requestedHandles[r])) = "ok")
    /\ [][/\ (lastCall'.op = "requestAuctionResultDecryption"
                 /\ lastCall'.result = "ok") =>
                \E r \in RequestIds :
                   /\ requestedHandles[r] = <<>>
                   /\ decryptionContexts'[r].batchId = lastCall'.arg
                   /\ ~decryptionContexts'[r].processed
                   /\ \A q \in RequestIds \ {r} :
                         decryptionContexts'[q] = decryptionContexts[q]
          /\ (lastCall'.op = "myCallback" /\ lastCall'.result = "ok") =>
                LET r == lastCall'.arg
                    bids == batchBids[decryptionContexts[r].batchId]
                IN /\ emitted'[1].name = "DecryptionCompleted"
                   /\ emitted'[1].batchId = decryptionContexts[r].batchId
                   /\ emitted'[1].winner = bids[LatestMaxIndex(bids)].bidder
                   /\ \A q \in RequestIds \ {r} :
                         decryptionContexts'[q] = decryptionContexts[q]
          /\ \A b \in BatchIds :
                batchClosed[b] => (batchClosed'[b] /\ batchBids'[b] = batchBids[b])]_vars

\* Both providers requested the decryption of batch 0, which holds two tied
\* bids of different bidders, and both requests have completed.
C30_Witness ==
    /\ lastCall.op = "myCallback"
    /\ lastCall.result = "ok"
    /\ \A r \in RequestIds :
          decryptionContexts[r].processed /\ decryptionContexts[r].batchId = 0
                /\ requestedHandles[r] # <<>>
    /\ \A a \in Addr : lastDecryptionRequestTime[a] > 0
    /\ Len(batchBids[0]) = 2
    /\ batchBids[0][1].bidder # batchBids[0][2].bidder
    /\ Cleartext(batchBids[0][1].encryptedBidAmount)
          = Cleartext(batchBids[0][2].encryptedBidAmount)

\* C31: a successful transferOwnership makes its argument the owner, emits
\* OwnershipTransferred(old owner, new owner) and changes nothing else: every
\* provider flag (the old owner keeps its flag, the new owner gains none), the
\* paused flag, cooldownSeconds, the rate-limit timestamps, batches, bids and
\* contexts are as before; nothing but a successful transferOwnership changes
\* the owner; and from the very next call on the owner-only functions answer
\* the new owner and refuse the previous one with NotOwner.
C31_TransferOwnershipFrame ==
    [][/\ (lastCall'.op = "transferOwnership" /\ lastCall'.result = "ok") =>
             /\ lastCall'.sender = owner
             /\ owner' = lastCall'.arg
             /\ emitted' = <<[name |-> "OwnershipTransferred", oldOwner |-> owner,
                              newOwner |-> lastCall'.arg]>>
             /\ UNCHANGED <<providers, paused, cooldownSeconds, lastSubmissionTime,
                            lastDecryptionRequestTime, batchBids, batchActive,
                            batchClosed, decryptionContexts, requestedHandles>>
       /\ owner' # owner =>
             (lastCall'.op = "transferOwnership" /\ lastCall'.result = "ok")
       /\ ( /\ lastCall.op = "transferOwnership" /\ lastCall.result = "ok"
            /\ lastCall'.op \in OwnerOnlyOps ) =>
             /\ lastCall'.sender = lastCall.arg => lastCall'.result = "ok"
             /\ ( lastCall'.sender = lastCall.sender
                  /\ lastCall.sender # lastCall.arg ) =>
                   (lastCall'.result = "NotOwner" /\ UNCHANGED storage)
      ]_vars

\* Ownership has just moved from the deployer to another address while a batch
\* holds bids and a request is pending: the deployer is still a provider and the
\* new owner is not.
C31_Witness ==
    /\ lastCall.op = "transferOwnership" /\ lastCall.result = "ok"
    /\ lastCall.sender = Deployer /\ lastCall.arg # Deployer
    /\ owner = lastCall.arg
    /\ providers[Deployer] /\ ~providers[owner]
    /\ batchClosed[0] /\ Len(batchBids[0]) > 0
    /\ \E r \in RequestIds :
          requestedHandles[r] # <<>> /\ ~decryptionContexts[r].processed

\* C32: under a fair oracle every issued request eventually becomes processed;
\* a delivery of the KMS's answer for an issued, unprocessed request succeeds
\* whatever the paused flag, the provider flags, the owner, the cooldown and the
\* batches have become; and processed goes from false to true only in a
\* successful myCallback for that request carrying a valid proof, so without a
\* delivery the request stays unprocessed.
C32_PendingRequestCompletes ==
    /\ \A r \in RequestIds :
          (requestedHandles[r] # <<>>) ~> decryptionContexts[r].processed
    /\ [][/\ \A r \in RequestIds :
                decryptionContexts'[r].processed # decryptionContexts[r].processed =>
                   /\ ~decryptionContexts[r].processed
                   /\ requestedHandles[r] # <<>>
                   /\ lastCall'.op = "myCallback" /\ lastCall'.arg = r
                   /\ lastCall'.result = "ok"
                   /\ checkSignatures(r, lastCall'.cleartexts, lastCall'.proof)
          /\ ( /\ lastCall'.op = "myCallback"
               /\ requestedHandles[lastCall'.arg] # <<>>
               /\ ~decryptionContexts[lastCall'.arg].processed
               /\ checkSignatures(lastCall'.arg, lastCall'.cleartexts, lastCall'.proof) ) =>
                (lastCall'.result = "ok" /\ decryptionContexts'[lastCall'.arg].processed)
         ]_vars

\* A request was completed although, since it was issued, the contract was
\* paused, the deployer lost its provider flag, ownership moved, the cooldown
\* was changed and another batch was opened and bid on.
C32_Witness ==
    /\ lastCall.op = "myCallback" /\ lastCall.result = "ok"
    /\ decryptionContexts[lastCall.arg].processed
    /\ paused
    /\ ~providers[Deployer]
    /\ owner # Deployer
    /\ cooldownSeconds # DefaultCooldown
    /\ batchActive[1] /\ Len(batchBids[1]) > 0

====
